---------------------------- MODULE Spec2Model ----------------------------
(***************************************************************************)
(* Model of the CmCt comparison core:                                      *)
(*   bin/IMBIE/imbie_utils.py      days_in_year, check_datarange,          *)
(*                                 process_model_data, sum_MassBalance,    *)
(*                                 process_IMBIE                           *)
(*   notebooks/Gravimetry/mascons.py  points_to_mascons,                   *)
(*                                 calc_mascon_delta_cmwe                  *)
(*                                                                         *)
(* Every function is a call: `op` names the function, `args` holds its     *)
(* inputs and `ret` what it returned or raised; a call starts from the     *)
(* state in which nothing has been called.  process_model_data is          *)
(* stepped through its loop over the analysis dates (pc, i, lithk_gdf,     *)
(* joined_gdf, modal_mass_changes are its locals).                         *)
(*                                                                         *)
(* Numbers: fractional years are whole years here (2000 stands for the     *)
(* float 2000.0), masses and thicknesses are integers, and a float NaN is  *)
(* the value NaN below, which every arithmetic operator propagates.        *)
(***************************************************************************)
EXTENDS Integers, Sequences, FiniteSets, TLC

VARIABLES op, args, ret, pc, i, lithk_gdf, joined_gdf, modal_mass_changes

locals == <<pc, i, lithk_gdf, joined_gdf, modal_mass_changes>>
vars == <<op, args, ret, pc, i, lithk_gdf, joined_gdf, modal_mass_changes>>

(* ------------------------------ bounds -------------------------------- *)
\* the observation years are 2000 .. 2000 + MaxYear
MaxYear == 2

(* --------------------------- general helpers -------------------------- *)
Raise(e) == [kind |-> "raise", exc |-> e]
Return(v) == [kind |-> "return", value |-> v]
\* a function that prints its error and returns None
ReturnNone == [kind |-> "return None"]
NoDict == [k \in {} |-> 0]

RECURSIVE SumSeq(_)
SumSeq(s) == IF s = <<>> THEN 0 ELSE Head(s) + SumSeq(Tail(s))

Years == 2000 .. (2000 + MaxYear)

\* str() of a float holding a whole number: str(2000.0) = "2000.0"
Str(d) == ToString(d) \o ".0"

(* ---------------------------- sum_MassBalance ------------------------- *)
\* DataFrame.sort_values(by='Year'): insertion of each row at its place
RECURSIVE InsertByYear(_, _)
InsertByYear(row, sorted) ==
    IF sorted = <<>> THEN <<row>>
    ELSE IF row.Year < Head(sorted).Year THEN <<row>> \o sorted
    ELSE <<Head(sorted)>> \o InsertByYear(row, Tail(sorted))

RECURSIVE sort_values(_)
sort_values(rows) ==
    IF rows = <<>> THEN <<>>
    ELSE InsertByYear(rows[Len(rows)], sort_values(SubSeq(rows, 1, Len(rows) - 1)))

\* the loop of lines 202-206; previous_mass_balance is assigned once, before
\* the loop (line 197), and the loop body does not assign it
RECURSIVE MassChangeLoop(_, _, _)
MassChangeLoop(filtered_data, k, previous_mass_balance) ==
    IF k > Len(filtered_data) THEN <<>>
    ELSE LET current_mass_balance == filtered_data[k].mass
             mass_change == current_mass_balance - previous_mass_balance
         IN  <<mass_change>> \o MassChangeLoop(filtered_data, k + 1, previous_mass_balance)

\* (the function, were a missing start row replaced by the last row before it)
sum_MassBalance_fallback(csv, hasColumn, start_date_fract, end_date_fract) ==
    LET mass_balance_data == sort_values(csv)
        data_start_date == SelectSeq(mass_balance_data, LAMBDA r : r.Year <= start_date_fract)
        filtered_data == SelectSeq(mass_balance_data,
                            LAMBDA r : r.Year > start_date_fract /\ r.Year <= end_date_fract)
    IN  IF ~hasColumn THEN Raise("ValueError")
        ELSE IF data_start_date = <<>> THEN Raise("ValueError")
        ELSE LET mass_balance_start_value == data_start_date[Len(data_start_date)].mass
                 mass_changes == MassChangeLoop(filtered_data, 1, mass_balance_start_value)
             IN  Return([k \in 1 .. Len(filtered_data) |->
                            [Year |-> filtered_data[k].Year,
                             mass |-> filtered_data[k].mass,
                             IMBIE_Mass_Change |-> mass_changes[k]]])

sum_MassBalance(csv, hasColumn, start_date_fract, end_date_fract) ==
    LET mass_balance_data == sort_values(csv)
        data_start_date == SelectSeq(mass_balance_data, LAMBDA r : r.Year = start_date_fract)
        filtered_data == SelectSeq(mass_balance_data,
                            LAMBDA r : r.Year > start_date_fract /\ r.Year <= end_date_fract)
    IN  IF ~hasColumn THEN Raise("ValueError")
        ELSE IF data_start_date = <<>> THEN Raise("ValueError")
        ELSE LET mass_balance_start_value == data_start_date[1].mass
                 mass_changes == MassChangeLoop(filtered_data, 1, mass_balance_start_value)
             IN  Return([k \in 1 .. Len(filtered_data) |->
                            [Year |-> filtered_data[k].Year,
                             mass |-> filtered_data[k].mass,
                             IMBIE_Mass_Change |-> mass_changes[k]]])

\* the CSV files offered to sum_MassBalance: rows in any order, one row per year
Masses == {70, 90, 100}

RECURSIVE CsvOver(_)
CsvOver(ys) ==
    IF ys = {} THEN {<<>>}
    ELSE UNION {{<<[Year |-> y, mass |-> m]>> \o rest : m \in Masses, rest \in CsvOver(ys \ {y})}
                : y \in ys}

CsvFiles == UNION {CsvOver(ys) : ys \in SUBSET Years}

Idle ==
    /\ pc = "idle"
    /\ i = 0
    /\ lithk_gdf = <<>>
    /\ joined_gdf = <<>>
    /\ modal_mass_changes = NoDict

Call_sum_MassBalance ==
    /\ op = "none"
    /\ \E csv \in CsvFiles, hasColumn \in BOOLEAN, s \in Years, e \in Years :
          /\ op' = "sum_MassBalance"
          /\ args' = [csv |-> csv, hasColumn |-> hasColumn,
                      start_date_fract |-> s, end_date_fract |-> e]
          /\ ret' = sum_MassBalance(csv, hasColumn, s, e)
    /\ UNCHANGED locals

Init ==
    /\ op = "none"
    /\ args = NoDict
    /\ ret = [kind |-> "none"]
    /\ Idle

(* ----------------------------- process_IMBIE -------------------------- *)
Regions == {"East", "West", "Peninsula"}

\* dict.update(): the new items win
Update(d, new) == new @@ d

\* one MassChangeRecord of process_model_data for the date y (lines 147-152);
\* the totals differ by date and from each other
ModelRecord(y, icesheet, regionNames) ==
    [model_total_mass_balance_masked |-> 5 * (y - 1999),
     model_total_mass_balance_unmasked |-> 5 * (y - 1999) + 2,
     region_mass_change_sums |->
        IF icesheet = "AIS"
        THEN [r \in regionNames |-> CASE r = "East" -> y - 1997
                                      [] r = "West" -> y - 1995
                                      [] OTHER -> y - 1993]
        ELSE NoDict]

\* (the loop, were it to stop at the first date the model result set lacks)
RECURSIVE DatedLoop_break(_, _, _, _)
DatedLoop_break(IMBIE_total_mass_change_sum, k, basin_result, results) ==
    IF k > Len(IMBIE_total_mass_change_sum) THEN results
    ELSE LET row == IMBIE_total_mass_change_sum[k]
             key == Str(row.Year)
         IN  IF key \in DOMAIN basin_result
             THEN DatedLoop_break(IMBIE_total_mass_change_sum, k + 1, basin_result,
                    Update(results, key :>
                       [IMBIE_total_mass_change_sum |-> row.IMBIE_Mass_Change,
                        Delta_MassChange_masked |-> row.IMBIE_Mass_Change
                            - basin_result[key].model_total_mass_balance_masked,
                        Delta_MassChange_unmasked |-> row.IMBIE_Mass_Change
                            - basin_result[key].model_total_mass_balance_unmasked]))
             ELSE results

\* the first loop, lines 225-244
RECURSIVE DatedLoop(_, _, _, _)
DatedLoop(IMBIE_total_mass_change_sum, k, basin_result, results) ==
    IF k > Len(IMBIE_total_mass_change_sum) THEN results
    ELSE LET row == IMBIE_total_mass_change_sum[k]
             date == row.Year
             imbie_mass_change == row.IMBIE_Mass_Change
         IN  IF Str(date) \in DOMAIN basin_result
             THEN LET model_mass_change_masked ==
                          basin_result[Str(date)].model_total_mass_balance_masked
                      model_mass_change_unmasked ==
                          basin_result[Str(date)].model_total_mass_balance_unmasked
                      entry == [IMBIE_total_mass_change_sum |-> imbie_mass_change,
                                Delta_MassChange_masked |->
                                    imbie_mass_change - model_mass_change_masked,
                                Delta_MassChange_unmasked |->
                                    imbie_mass_change - model_mass_change_unmasked]
                  IN  DatedLoop(IMBIE_total_mass_change_sum, k + 1, basin_result,
                                Update(results, (Str(date) :> entry)))
             ELSE DatedLoop(IMBIE_total_mass_change_sum, k + 1, basin_result, results)

\* one region's block of the regional loop, lines 282-287 (East), 290-295
\* (West), 298-303 (Peninsula)
RegionUpdate(regional_results, key, region, region_mass_change_sums, imbie_mass_change) ==
    IF region \in DOMAIN region_mass_change_sums
    THEN LET prev == IF key \in DOMAIN regional_results THEN regional_results[key] ELSE NoDict
             delta_masschange == imbie_mass_change - region_mass_change_sums[region]
         IN  Update(regional_results,
                    key :> Update(prev, (("IMBIE_Mass_Change_" \o region) :> imbie_mass_change)
                                        @@ (("Delta_MassChange_" \o region) :> delta_masschange)))
    ELSE regional_results

Min(a, b) == IF a < b THEN a ELSE b

\* the regional loop over zip(east, west, peninsula), lines 264-305
RECURSIVE RegionalLoop(_, _, _, _, _, _)
RegionalLoop(east, west, peninsula, k, basin_result, regional_results) ==
    IF k > Min(Len(east), Min(Len(west), Len(peninsula))) THEN regional_results
    ELSE LET date == east[k].Year
             key == Str(date)
         IN  IF key \in DOMAIN basin_result
             THEN LET sums == basin_result[key].region_mass_change_sums
                      r1 == RegionUpdate(regional_results, key, "East", sums,
                                         east[k].IMBIE_Mass_Change)
                      r2 == RegionUpdate(r1, key, "West", sums, west[k].IMBIE_Mass_Change)
                      r3 == RegionUpdate(r2, key, "Peninsula", sums,
                                         peninsula[k].IMBIE_Mass_Change)
                  IN  RegionalLoop(east, west, peninsula, k + 1, basin_result, r3)
             ELSE RegionalLoop(east, west, peninsula, k + 1, basin_result, regional_results)

\* `name and os.path.exists(name)`: a file name is None, names no file, or names
\* a file of the disk
FileGiven(f) == f.name # "None" /\ f.name # ""
PathExists(f) == f.name = "exists"
FileUsable(f) == FileGiven(f) /\ PathExists(f)

\* the condition of lines 249-251
RegionalFilesExist(obs_east, obs_west, obs_peninsula) ==
    FileUsable(obs_east) /\ FileUsable(obs_west) /\ FileUsable(obs_peninsula)

\* (the two tests, were the one of the ice sheet left out)
RegionalBranch_anySheet(icesheet, obs_east, obs_west, obs_peninsula) ==
    RegionalFilesExist(obs_east, obs_west, obs_peninsula)

\* the two nested tests of lines 247-251
RegionalBranch(icesheet, obs_east, obs_west, obs_peninsula) ==
    icesheet = "AIS" /\ RegionalFilesExist(obs_east, obs_west, obs_peninsula)

process_IMBIE(start_date_fract, end_date_fract, icesheet, basin_result, IMBIE_total_mass_change_sum, obs_east, obs_west, obs_peninsula) ==
    LET dated == DatedLoop(IMBIE_total_mass_change_sum, 1, basin_result, NoDict)
    IN  IF RegionalBranch(icesheet, obs_east, obs_west, obs_peninsula)
        THEN LET e == sum_MassBalance(obs_east.csv, TRUE, start_date_fract, end_date_fract)
                 w == sum_MassBalance(obs_west.csv, TRUE, start_date_fract, end_date_fract)
                 p == sum_MassBalance(obs_peninsula.csv, TRUE, start_date_fract, end_date_fract)
             IN  IF e.kind = "raise" THEN e
                 ELSE IF w.kind = "raise" THEN w
                 ELSE IF p.kind = "raise" THEN p
                 ELSE Return([dated |-> dated,
                              has_Regional_Mass_Change_Summary |-> TRUE,
                              Regional_Mass_Change_Summary |->
                                  RegionalLoop(e.value, w.value, p.value, 1, basin_result, NoDict),
                              print_regionalresult_check |-> "YES"])
        ELSE Return([dated |-> dated,
                     has_Regional_Mass_Change_Summary |-> FALSE,
                     Regional_Mass_Change_Summary |-> NoDict,
                     print_regionalresult_check |-> "NO"])

\* ---- the inputs offered to process_IMBIE
\* observation deltas as sum_MassBalance returns them: ascending dates
ObsDelta(y) == 0 - 10 * (y - 1999)

RECURSIVE AscendingRows(_)
AscendingRows(ys) ==
    IF ys = {} THEN <<>>
    ELSE LET y == CHOOSE m \in ys : \A z \in ys : m <= z
         IN  <<[Year |-> y, mass |-> 100 + ObsDelta(y), IMBIE_Mass_Change |-> ObsDelta(y)]>>
                 \o AscendingRows(ys \ {y})

ObsSeries == {AscendingRows(ys) : ys \in SUBSET Years}

\* the model result sets: the records of any set of dates, keyed by str(date),
\* beside one record under a key that is the str() of no date
BasinResults(icesheet) ==
    {[k \in {Str(y) : y \in ys} \cup {"2001"} |->
         ModelRecord(CHOOSE y \in Years \cup {2001} : k \in {Str(y), ToString(y)},
                     icesheet, regionNames)]
       : ys \in SUBSET Years, regionNames \in {Regions, {"East", "West"}}}

\* the regional CSV files of the disk: every year, one year missing inside the
\* window, or the first year missing
RegionBase(region) == CASE region = "East" -> 100 [] region = "West" -> 60 [] OTHER -> 30

RECURSIVE CsvRows(_, _)
CsvRows(ys, region) ==
    IF ys = {} THEN <<>>
    ELSE LET y == CHOOSE m \in ys : \A z \in ys : m <= z
         IN  <<[Year |-> y, mass |-> RegionBase(region) - (y - 2000) * (y - 1999)]>>
                 \o CsvRows(ys \ {y}, region)

RegionalCsvs(region) ==
    {CsvRows(Years, region), CsvRows(Years \ {2001}, region), CsvRows(Years \ {2000}, region)}

ObsFiles(region) ==
    {[name |-> "None", csv |-> <<>>], [name |-> "missing", csv |-> <<>>]}
        \cup {[name |-> "exists", csv |-> c] : c \in RegionalCsvs(region)}

StartEnds == {se \in Years \X Years : se[1] < se[2]}

Call_process_IMBIE ==
    /\ op = "none"
    /\ \E icesheet \in {"GIS", "AIS"}, se \in StartEnds, obs \in ObsSeries :
       \E basin_result \in BasinResults(icesheet),
          fe \in ObsFiles("East"), fw \in ObsFiles("West"), fp \in ObsFiles("Peninsula") :
          /\ op' = "process_IMBIE"
          /\ args' = [start_date_fract |-> se[1], end_date_fract |-> se[2],
                      icesheet |-> icesheet, basin_result |-> basin_result,
                      IMBIE_total_mass_change_sum |-> obs,
                      obs_east |-> fe, obs_west |-> fw, obs_peninsula |-> fp]
          /\ ret' = process_IMBIE(se[1], se[2], icesheet, basin_result, obs, fe, fw, fp)
    /\ UNCHANGED locals

NextObs == Call_process_IMBIE \/ Call_sum_MassBalance

SpecObs == Init /\ [][NextObs]_vars

(* ----------------------------- days_in_year --------------------------- *)
Divides(n, y) == y % n = 0

\* cftime.is_leap_year(year, calendar) for the calendars that reach line 23:
\* 'standard'/'gregorian' is Julian up to 1581 and Gregorian from 1582
is_leap_year(year, calendar) ==
    IF calendar = "proleptic_gregorian" \/ (calendar \in {"standard", "gregorian"} /\ year > 1581)
    THEN Divides(4, year) /\ (~Divides(100, year) \/ Divides(400, year))
    ELSE Divides(4, year)

\* (the function, were the test of the 360-day calendar to come too late)
days_in_year_no360(calendar, year) ==
    IF calendar = "365_day" \/ calendar = "noleap" THEN 365
    ELSE IF calendar = "366_day" \/ calendar = "all_leap" THEN 366
    ELSE IF is_leap_year(year, calendar) THEN 366
    ELSE 365

days_in_year(calendar, year) ==
    IF calendar = "365_day" \/ calendar = "noleap" THEN 365
    ELSE IF calendar = "366_day" \/ calendar = "all_leap" THEN 366
    ELSE IF calendar = "360_day" THEN 360
    ELSE IF is_leap_year(year, calendar) THEN 366
    ELSE 365

Calendars == {"365_day", "noleap", "366_day", "all_leap", "360_day",
              "standard", "gregorian", "proleptic_gregorian", "julian"}

CalendarYears == {1500, 1580, 1581, 1582, 1600, 1700, 1900, 1999, 2000, 2001, 2004, 2100}

Call_days_in_year ==
    /\ op = "none"
    /\ \E calendar \in Calendars, year \in CalendarYears :
          /\ op' = "days_in_year"
          /\ args' = [calendar |-> calendar, year |-> year]
          /\ ret' = Return(days_in_year(calendar, year))
    /\ UNCHANGED locals

(* ---------------------------- check_datarange ------------------------- *)
RECURSIVE SeqMin(_)
SeqMin(s) == IF Len(s) = 1 THEN s[1]
             ELSE LET m == SeqMin(Tail(s)) IN IF s[1] < m THEN s[1] ELSE m

RECURSIVE SeqMax(_)
SeqMax(s) == IF Len(s) = 1 THEN s[1]
             ELSE LET m == SeqMax(Tail(s)) IN IF s[1] > m THEN s[1] ELSE m

\* (the check, were the bounds exclusive)
check_datarange_strict(time_var, start_date_cftime, end_date_cftime) ==
    LET min_time == SeqMin(time_var)
        max_time == SeqMax(time_var)
    IN  IF /\ min_time < start_date_cftime /\ start_date_cftime < max_time
           /\ min_time < end_date_cftime /\ end_date_cftime < max_time
        THEN Return("None")
        ELSE Raise("ValueError")

check_datarange(time_var, start_date_cftime, end_date_cftime) ==
    LET min_time == SeqMin(time_var)
        max_time == SeqMax(time_var)
    IN  IF /\ min_time <= start_date_cftime /\ start_date_cftime <= max_time
           /\ min_time <= end_date_cftime /\ end_date_cftime <= max_time
        THEN Return("None")
        ELSE Raise("ValueError")

\* the time coordinates offered: the ascending sequences of one or more years
RECURSIVE Ascending(_)
Ascending(ys) ==
    IF ys = {} THEN <<>>
    ELSE LET y == CHOOSE m \in ys : \A z \in ys : m <= z
         IN  <<y>> \o Ascending(ys \ {y})

TimeAxes == {Ascending(ys) : ys \in (SUBSET Years) \ {{}}}

\* the dates asked for: the years and one year before and after them
WideYears == (2000 - 1) .. (2000 + MaxYear + 1)

Call_check_datarange ==
    /\ op = "none"
    /\ \E time_var \in TimeAxes, s \in WideYears, e \in WideYears :
          /\ op' = "check_datarange"
          /\ args' = [time_var |-> time_var, start_date_cftime |-> s, end_date_cftime |-> e]
          /\ ret' = check_datarange(time_var, s, e)
    /\ UNCHANGED locals

(* --------------------------- process_model_data ----------------------- *)
\* the float NaN, outside the range of every number of the model
NaN == 0 - 1000000
IsNaN(v) == v = NaN
Sub(a, b) == IF IsNaN(a) \/ IsNaN(b) THEN NaN ELSE a - b
Mul(a, b) == IF IsNaN(a) \/ IsNaN(b) THEN NaN ELSE a * b

\* np.nansum: NaN entries count as zero
RECURSIVE nansum(_)
nansum(s) ==
    IF s = <<>> THEN 0
    ELSE (IF IsNaN(Head(s)) THEN 0 ELSE Head(s)) + nansum(Tail(s))

\* the native time coordinate of the model file, and lithk on (time, y, x)
NativeTimes == <<2000, 2002>>

\* xarray's linear interp of one cell's series along time: NaN outside the
\* native range, the stored value at a native time, and between two native
\* times the line through the two values (NaN when either is NaN)
RECURSIVE Interp1(_, _, _, _)
Interp1(times, values, t, k) ==
    IF t < times[1] \/ t > times[Len(times)] THEN NaN
    ELSE IF t = times[k] THEN values[k]
    ELSE IF t > times[k + 1] THEN Interp1(times, values, t, k + 1)
    ELSE IF t = times[k + 1] THEN values[k + 1]
    ELSE IF IsNaN(values[k]) \/ IsNaN(values[k + 1]) THEN NaN
    ELSE values[k] + (((values[k + 1] - values[k]) * (t - times[k])) \div (times[k + 1] - times[k]))

\* lithk.interp(time=t).data: the (y, x) array at time t
Interp(lithk, t) ==
    [yi \in 1 .. Len(lithk[1]) |->
        [xi \in 1 .. Len(lithk[1][1]) |->
            Interp1(NativeTimes, [n \in 1 .. Len(lithk) |-> lithk[n][yi][xi]], t, 1)]]

\* (lines 85 and 91, were the (y, x) array flattened without the transpose)
Transpose_none(a) == a

\* ndarray.transpose() of a 2-D array
Transpose(a) == [c \in 1 .. Len(a[1]) |-> [r \in 1 .. Len(a) |-> a[r][c]]]

\* ndarray.flatten() of a 2-D array: row after row
Flatten(a) ==
    [k \in 1 .. Len(a) * Len(a[1]) |-> a[((k - 1) \div Len(a[1])) + 1][((k - 1) % Len(a[1])) + 1]]

\* line 79: [Point(x, y) for x in x_coords for y in y_coords]
Points(x_coords, y_coords) ==
    [k \in 1 .. Len(x_coords) * Len(y_coords) |->
        <<x_coords[((k - 1) \div Len(y_coords)) + 1], y_coords[((k - 1) % Len(y_coords)) + 1]>>]

Abs(v) == IF v < 0 THEN 0 - v ELSE v

\* (line 96, were the NaN differences left in place)
FillNaN_keep(v) == v

\* line 96: lithk_delta[np.isnan(lithk_delta)] = 0
FillNaN(v) == IF IsNaN(v) THEN 0 ELSE v

\* lines 91-100: the scaled delta of every point at time_step, in the order of
\* the flattened array; the unit factor 1e-12 is left to the unit of the result
LithkDelta(a, time_step) ==
    LET lithk_start == Flatten(Transpose(Interp(a.lithk, a.start_date_fract)))
        lithk_current == Flatten(Transpose(Interp(a.lithk, time_step)))
        x_resolution == Abs(a.x_coords[2] - a.x_coords[1])
        y_resolution == Abs(a.y_coords[2] - a.y_coords[1])
    IN  [k \in 1 .. Len(lithk_current) |->
            Mul(Mul(Mul(FillNaN(Sub(lithk_current[k], lithk_start[k])), x_resolution),
                    y_resolution), a.rho_ice)]

\* predicate='intersects' of a point and a basin polygon (a box, edges included)
Intersects(pt, poly) ==
    /\ poly.xmin <= pt[1] /\ pt[1] <= poly.xmax
    /\ poly.ymin <= pt[2] /\ pt[2] <= poly.ymax

\* gpd.sjoin(lithk_gdf, basins_gdf, how="inner"): one row per (point, polygon)
\* pair that intersects, under the point's index, with the polygon's columns
RECURSIVE sjoin(_, _, _, _)
sjoin(gdf, basins_gdf, k, b) ==
    IF k > Len(gdf) THEN <<>>
    ELSE IF b > Len(basins_gdf) THEN sjoin(gdf, basins_gdf, k + 1, 1)
    ELSE (IF Intersects(gdf[k].geometry, basins_gdf[b])
          THEN <<[index |-> k, geometry |-> gdf[k].geometry,
                  lithk_delta |-> gdf[k].lithk_delta, index_right |-> b,
                  Subregion |-> basins_gdf[b].Subregion,
                  Regions |-> basins_gdf[b].Regions]>>
          ELSE <<>>) \o sjoin(gdf, basins_gdf, k, b + 1)

\* (line 126, were the joined rows to keep the values of the join)
AssignDelta_stale(joined, gdf) == joined

\* line 126: the column assignment aligns on the index
AssignDelta(joined, gdf) ==
    [r \in 1 .. Len(joined) |->
        [joined[r] EXCEPT !.lithk_delta = gdf[joined[r].index].lithk_delta]]

RECURSIVE SumWhere(_, _, _, _)
SumWhere(joined, column, label, r) ==
    IF r > Len(joined) THEN 0
    ELSE (IF joined[r][column] = label /\ ~IsNaN(joined[r].lithk_delta)
          THEN joined[r].lithk_delta ELSE 0) + SumWhere(joined, column, label, r + 1)

\* joined_gdf.groupby(column)['lithk_delta'].sum()
GroupBySum(joined, column) ==
    [label \in {joined[r][column] : r \in 1 .. Len(joined)} |->
        SumWhere(joined, column, label, 1)]

RECURSIVE SumOver(_, _)
SumOver(f, keys) ==
    IF keys = {} THEN 0
    ELSE LET k == CHOOSE x \in keys : TRUE IN f[k] + SumOver(f, keys \ {k})

\* (line 143, were it to take the largest basin total)
MaskedTotal_max(basin_mass_change_sums) ==
    IF DOMAIN basin_mass_change_sums = {} THEN 0
    ELSE LET k == CHOOSE x \in DOMAIN basin_mass_change_sums :
                      \A z \in DOMAIN basin_mass_change_sums :
                          basin_mass_change_sums[z] <= basin_mass_change_sums[x]
         IN  basin_mass_change_sums[k]

\* line 143: basin_mass_change_sums.sum()
MaskedTotal(basin_mass_change_sums) ==
    SumOver(basin_mass_change_sums, DOMAIN basin_mass_change_sums)

\* ---- the inputs offered to process_model_data
MaxN == 3

\* the x coordinates are 2 apart and the y coordinates 1 apart
Coords(n, step) == [k \in 1 .. n |-> (k - 1) * step]

\* a field that is 10 everywhere at the first native time and grows by a
\* different even amount in every cell; no cell, the first or the last cell
\* is NaN at the second native time
Lithk(nx, ny, nanCell) ==
    [n \in 1 .. 2 |->
        [yi \in 1 .. ny |->
            [xi \in 1 .. nx |->
                IF n = 2 /\ nanCell = <<xi, yi>> THEN NaN
                ELSE 10 + (n - 1) * 2 * (xi + 10 * yi)]]]

\* basin layers: one basin over the whole grid; two basins side by side; one
\* basin over the first column only; two basins that share the column x = 2;
\* no basin at all
BasinLayers ==
    { <<[xmin |-> 0 - 1, xmax |-> 100, ymin |-> 0 - 1, ymax |-> 100,
         Subregion |-> "B1", Regions |-> "East"]>>,
      <<[xmin |-> 0 - 1, xmax |-> 1, ymin |-> 0 - 1, ymax |-> 100,
         Subregion |-> "B1", Regions |-> "East"],
        [xmin |-> 1, xmax |-> 100, ymin |-> 0 - 1, ymax |-> 100,
         Subregion |-> "B2", Regions |-> "West"]>>,
      <<[xmin |-> 0 - 1, xmax |-> 1, ymin |-> 0 - 1, ymax |-> 100,
         Subregion |-> "B1", Regions |-> "East"]>>,
      <<[xmin |-> 0 - 1, xmax |-> 2, ymin |-> 0 - 1, ymax |-> 100,
         Subregion |-> "B1", Regions |-> "East"],
        [xmin |-> 2, xmax |-> 100, ymin |-> 0 - 1, ymax |-> 100,
         Subregion |-> "B2", Regions |-> "West"]>>,
      <<>> }

GridInputs ==
    UNION {{[x_coords |-> Coords(nx, 2), y_coords |-> Coords(ny, 1),
             lithk |-> Lithk(nx, ny, nanCell)]
              : nanCell \in {<<0, 0>>, <<1, 1>>, <<nx, ny>>}}
           : nx \in 1 .. MaxN, ny \in 1 .. MaxN}

Call_process_model_data ==
    /\ op = "none"
    /\ \E grid \in GridInputs, dates \in TimeAxes \cup {<<>>}, basins_gdf \in BasinLayers,
          s \in {2000 - 1, 2000, 2001}, e \in {2002, 2003}, rho_ice \in {1, 3},
          icesheet \in {"GIS", "AIS", "XYZ"} :
          LET a == [x_coords |-> grid.x_coords, y_coords |-> grid.y_coords,
                    lithk |-> grid.lithk, time_var |-> NativeTimes,
                    filtered_time_var |-> dates, basins_gdf |-> basins_gdf,
                    start_date_fract |-> s, end_date_fract |-> e,
                    rho_ice |-> rho_ice, icesheet |-> icesheet]
              checked == check_datarange(a.time_var, s, e)
          IN  /\ op' = "process_model_data"
              /\ args' = a
              /\ IF checked.kind = "raise"
                 THEN ret' = checked /\ pc' = "done"                       \* line 64
                 ELSE IF Len(a.x_coords) < 2 \/ Len(a.y_coords) < 2
                 THEN ret' = Raise("IndexError") /\ pc' = "done"           \* lines 75-76
                 ELSE ret' = ret /\ pc' = "loop"
    /\ UNCHANGED <<i, lithk_gdf, joined_gdf, modal_mass_changes>>

\* lines 111-117: the frame of the points and their deltas
LithkGdf(a, lithk_delta) ==
    LET points == Points(a.x_coords, a.y_coords)
    IN  [k \in 1 .. Len(lithk_delta) |->
            [geometry |-> points[k], lithk_delta |-> lithk_delta[k]]]

\* lines 147-152: the record of one analysis date
MassChangeRecord(icesheet, lithk_delta, joined) ==
    LET basin_mass_change_sums == GroupBySum(joined, "Subregion")
    IN  [model_total_mass_balance_unmasked |-> nansum(lithk_delta),
         model_total_mass_balance_masked |-> MaskedTotal(basin_mass_change_sums),
         basin_mass_change_sums |-> basin_mass_change_sums,
         region_mass_change_sums |->
             IF icesheet = "AIS" THEN GroupBySum(joined, "Regions") ELSE "None"]

\* one iteration of the loop of lines 88-152
LoopStep ==
    /\ op = "process_model_data"
    /\ pc = "loop"
    /\ i < Len(args.filtered_time_var)
    /\ \E time_step \in {args.filtered_time_var[i + 1]} :
       \E lithk_delta \in {LithkDelta(args, time_step)} :
       \E gdf \in {LithkGdf(args, lithk_delta)} :
       \E joined0 \in {IF i = 0 THEN sjoin(gdf, args.basins_gdf, 1, 1) ELSE joined_gdf} :
       \E joined \in {AssignDelta(joined0, gdf)} :
           /\ lithk_gdf' = gdf
           /\ joined_gdf' = joined
           /\ IF args.icesheet \in {"GIS", "AIS"}
              THEN /\ modal_mass_changes' =
                        Update(modal_mass_changes, Str(time_step) :>
                                  MassChangeRecord(args.icesheet, lithk_delta, joined))
                   /\ i' = i + 1
                   /\ UNCHANGED <<pc, ret>>
              ELSE /\ ret' = Raise("ValueError")                           \* line 140
                   /\ pc' = "done"
                   /\ UNCHANGED <<i, modal_mass_changes>>
    /\ UNCHANGED <<op, args>>

\* line 156, after the last analysis date
LoopReturn ==
    /\ op = "process_model_data"
    /\ pc = "loop"
    /\ i = Len(args.filtered_time_var)
    /\ ret' = Return(modal_mass_changes)
    /\ pc' = "done"
    /\ UNCHANGED <<op, args, i, lithk_gdf, joined_gdf, modal_mass_changes>>

NextModel ==
    \/ Call_days_in_year
    \/ Call_check_datarange
    \/ Call_process_model_data
    \/ LoopStep
    \/ LoopReturn

SpecModel == Init /\ [][NextModel]_vars

(* ------------------------------ mascons.py ---------------------------- *)
MaxMascons == 2
MaxPoints == 2

\* np.sum(I_) of a boolean array
RECURSIVE CountTrue(_)
CountTrue(I_) ==
    IF I_ = <<>> THEN 0 ELSE (IF Head(I_) THEN 1 ELSE 0) + CountTrue(Tail(I_))

\* np.array(range(N))[I_]: the indices of the true entries, ascending
RECURSIVE Indices(_, _)
Indices(I_, k) ==
    IF k > Len(I_) THEN <<>>
    ELSE (IF I_[k] THEN <<k>> ELSE <<>>) \o Indices(I_, k + 1)

Col(points, f) == [z \in 1 .. Len(points) |-> points[z][f]]

\* values[K_] with NaN values dropped (lines 121-126): the values of the points
\* inside the half-open box of mascon i
InBox(mascons, idx, pt) ==
    LET min_lat == mascons.lat_centers[idx] - (mascons.lat_spans[idx] \div 2)
        max_lat == mascons.lat_centers[idx] + (mascons.lat_spans[idx] \div 2)
        min_lon == mascons.lon_centers[idx] - (mascons.lon_spans[idx] \div 2)
        max_lon == mascons.lon_centers[idx] + (mascons.lon_spans[idx] \div 2)
    IN  /\ pt.lat >= min_lat /\ pt.lat < max_lat
        /\ pt.lon >= min_lon /\ pt.lon < max_lon

Surviving(mascons, idx, points) ==
    Col(SelectSeq(points, LAMBDA pt : InBox(mascons, idx, pt) /\ ~IsNaN(pt.value)), "value")

\* lines 112-119: the four tests that skip a mascon the points lie wholly
\* beside (bounds included)
Beside(mascons, idx, points) ==
    LET min_lat == mascons.lat_centers[idx] - (mascons.lat_spans[idx] \div 2)
        max_lat == mascons.lat_centers[idx] + (mascons.lat_spans[idx] \div 2)
        min_lon == mascons.lon_centers[idx] - (mascons.lon_spans[idx] \div 2)
        max_lon == mascons.lon_centers[idx] + (mascons.lon_spans[idx] \div 2)
    IN  \/ SeqMin(Col(points, "lat")) > max_lat
        \/ SeqMax(Col(points, "lat")) < min_lat
        \/ SeqMin(Col(points, "lon")) > max_lon
        \/ SeqMax(Col(points, "lon")) < min_lon

\* np.nanmean of values without NaN; the values offered make it a whole number
nanmean(m) == SumSeq(m) \div Len(m)

\* the loop of lines 109-136 from position n of indices on; j is advanced only
\* by an iteration that stores a mean
RECURSIVE MasconLoop(_, _, _, _, _, _)
MasconLoop(mascons, indices, n, points, j, mscn_mean) ==
    IF n > Len(indices) THEN Return(mscn_mean)
    ELSE IF points = <<>> THEN Raise("ValueError")        \* np.min of an empty array
    ELSE IF Beside(mascons, indices[n], points)
    THEN MasconLoop(mascons, indices, n + 1, points, j, mscn_mean)
    ELSE LET m == Surviving(mascons, indices[n], points)
         IN  IF Len(m) = 0
             THEN MasconLoop(mascons, indices, n + 1, points, j, mscn_mean)
             ELSE MasconLoop(mascons, indices, n + 1, points, j + 1,
                             [mscn_mean EXCEPT ![j + 1] = nanmean(m)])

\* line 106: np.nan * np.ones(np.sum(I_))
NaNArray(I_) == [k \in 1 .. CountTrue(I_) |-> NaN]

points_to_mascons(mascons, I_, points) ==
    MasconLoop(mascons, Indices(I_, 1), 1, points, 0, NaNArray(I_))

\* ---- calc_mascon_delta_cmwe
\* a calendar date "YYYY-MM-DD" is the number of days from 2002-01-01 to it;
\* line 141 counts the days since 2001-12-31
YYYY_MM_DD_to_days_since_Jan_0_2002(date_str) == date_str + 1

\* line 48: the calendar date that lies `days` whole days after 2002-01-01
set_times_as_datetimes(days) == [k \in 1 .. Len(days) |-> days[k]]

\* interp1d(days_middle, row, fill_value="extrapolate") at t: the line through
\* the two neighbours, and beyond the ends the line of the first or last two points
RECURSIVE Segment(_, _, _)
Segment(x, t, k) ==
    IF k >= Len(x) - 1 \/ t <= x[k + 1] THEN k ELSE Segment(x, t, k + 1)

interp_obj(x, y, t) ==
    LET k == Segment(x, t, 1)
    IN  y[k] + (((y[k + 1] - y[k]) * (t - x[k])) \div (x[k + 1] - x[k]))

\* (line 175, were every row taken)
Select_all(cmwe, I_) == cmwe

\* line 175: mascon.cmwe[I_]
Select(cmwe, I_) == [n \in 1 .. CountTrue(I_) |-> cmwe[Indices(I_, 1)[n]]]

calc_mascon_delta_cmwe(mascon, start_date, end_date, I_) ==
    LET t_0 == YYYY_MM_DD_to_days_since_Jan_0_2002(start_date)
        t_1 == YYYY_MM_DD_to_days_since_Jan_0_2002(end_date)
        cmwe_I_ == Select(mascon.cmwe, I_)
    IN  IF t_0 < mascon.days_start[1] THEN ReturnNone
        ELSE IF t_1 > mascon.days_end[Len(mascon.days_end)] THEN ReturnNone
        ELSE Return([n \in 1 .. Len(cmwe_I_) |->
                        interp_obj(mascon.days_middle, cmwe_I_[n], t_1)
                            - interp_obj(mascon.days_middle, cmwe_I_[n], t_0)])

\* ---- the inputs offered
\* mascon n covers the latitudes [2n - 2, 2n) and the longitudes [0, 2)
RECURSIVE SeqsOver(_, _)
SeqsOver(S, n) ==
    IF n = 0 THEN {<<>>}
    ELSE {<<x>> \o rest : x \in S, rest \in SeqsOver(S, n - 1)}

CmweRows == {<<0, 2, 6>>, <<10, 10, 4>>}

Mascons(nm, cmwe) ==
    [lat_centers |-> [n \in 1 .. nm |-> 2 * n - 1],
     lat_spans |-> [n \in 1 .. nm |-> 2],
     lon_centers |-> [n \in 1 .. nm |-> 1],
     lon_spans |-> [n \in 1 .. nm |-> 2],
     cmwe |-> cmwe,
     days_start |-> <<2, 4, 6>>,
     days_middle |-> <<3, 5, 7>>,
     days_end |-> <<4, 6, 8>>,
     times_start |-> set_times_as_datetimes(<<2, 4, 6>>),
     times_end |-> set_times_as_datetimes(<<4, 6, 8>>)]

ScatterPoints ==
    [lat : {2 * n : n \in 0 .. MaxMascons}, lon : {0, 2}, value : {NaN, 12, 24}]

Scatters == UNION {SeqsOver(ScatterPoints, n) : n \in 0 .. MaxPoints}

Call_points_to_mascons ==
    /\ op = "none"
    /\ \E I_ \in SeqsOver(BOOLEAN, MaxMascons), points \in Scatters :
          LET mascons == Mascons(MaxMascons, [n \in 1 .. MaxMascons |-> <<0, 2, 6>>])
          IN  /\ op' = "points_to_mascons"
              /\ args' = [mascons |-> mascons, I_ |-> I_, points |-> points]
              /\ ret' = points_to_mascons(mascons, I_, points)
    /\ UNCHANGED locals

CalendarDates == 0 .. 9

Call_calc_mascon_delta_cmwe ==
    /\ op = "none"
    /\ \E I_ \in SeqsOver(BOOLEAN, MaxMascons), cmwe \in SeqsOver(CmweRows, MaxMascons),
          start_date \in CalendarDates, end_date \in CalendarDates :
          LET mascon == Mascons(MaxMascons, cmwe)
          IN  /\ op' = "calc_mascon_delta_cmwe"
              /\ args' = [mascon |-> mascon, start_date |-> start_date,
                          end_date |-> end_date, I_ |-> I_]
              /\ ret' = calc_mascon_delta_cmwe(mascon, start_date, end_date, I_)
    /\ UNCHANGED locals

NextMascon == Call_points_to_mascons \/ Call_calc_mascon_delta_cmwe

SpecMascon == Init /\ [][NextMascon]_vars

(* ------------------------------- C7 ----------------------------------- *)
\* the day numbers of the two dates, as the function counts them
DayOf(date_str) == YYYY_MM_DD_to_days_since_Jan_0_2002(date_str)

InRecordRange(t) ==
    /\ args.mascon.days_start[1] <= t
    /\ t <= args.mascon.days_end[Len(args.mascon.days_end)]

Selected == {n \in 1 .. Len(args.I_) : args.I_[n]}

NoPointInSelectedBox ==
    \A n \in Selected : \A z \in 1 .. Len(args.points) :
        ~InBox(args.mascons, n, args.points[z])

\* C8 (as claimed): with a selection mask that is all false points_to_mascons
\* returns a result of length zero; with a selection none of whose cells'
\* bounding boxes holds a scattered point it returns a result of length sum(I_)
\* whose every entry is NaN.
C8_EmptyAndNoHit ==
    (op = "points_to_mascons") =>
        /\ Selected = {} => (ret.kind = "return" /\ Len(ret.value) = 0)
        /\ NoPointInSelectedBox =>
              /\ ret.kind = "return"
              /\ Len(ret.value) = Cardinality(Selected)
              /\ \A k \in 1 .. Len(ret.value) : IsNaN(ret.value[k])

(* --------------------------- C3, C4 and C10 --------------------------- *)
TimeValues == {args.time_var[k] : k \in 1 .. Len(args.time_var)}

Cells == (1 .. Len(args.x_coords)) \X (1 .. Len(args.y_coords))

\* the mass change of the grid cell (x_coords[xi], y_coords[yi]) at a date:
\* (snapshot(date) - snapshot(start)) * cell area * ice density, a NaN
\* difference counting as 0
ExpectedDelta(xi, yi, date) ==
    LET series == [n \in 1 .. Len(args.lithk) |-> args.lithk[n][yi][xi]]
        current == Interp1(args.time_var, series, date, 1)
        start == Interp1(args.time_var, series, args.start_date_fract, 1)
        difference == IF IsNaN(current) \/ IsNaN(start) THEN 0 ELSE current - start
        cell_area == Abs(args.x_coords[2] - args.x_coords[1])
                        * Abs(args.y_coords[2] - args.y_coords[1])
    IN  difference * cell_area * args.rho_ice

RECURSIVE ExpectedTotal(_, _)
ExpectedTotal(cells, date) ==
    IF cells = {} THEN 0
    ELSE LET c == CHOOSE x \in cells : TRUE
         IN  ExpectedDelta(c[1], c[2], date) + ExpectedTotal(cells \ {c}, date)

AnalysisDates == {args.filtered_time_var[k] : k \in 1 .. Len(args.filtered_time_var)}

\* C3: in every MassChangeRecord of process_model_data the masked total is the
\* sum of the record's per-basin totals, and the unmasked total is the sum of
\* the mass changes of all grid points, inside a basin or not.
C3_RecordTotals ==
    (op = "process_model_data") =>
        \A d \in AnalysisDates :
            Str(d) \in DOMAIN modal_mass_changes =>
                LET rec == modal_mass_changes[Str(d)]
                IN  /\ rec.model_total_mass_balance_masked =
                           SumOver(rec.basin_mass_change_sums, DOMAIN rec.basin_mass_change_sums)
                    /\ rec.model_total_mass_balance_unmasked = ExpectedTotal(Cells, d)

\* a record with two basins whose masked total differs from the unmasked one
C3_Witness ==
    /\ op = "process_model_data"
    /\ ret.kind = "return"
    /\ \E k \in DOMAIN modal_mass_changes :
          /\ Cardinality(DOMAIN modal_mass_changes[k].basin_mass_change_sums) = 2
          /\ modal_mass_changes[k].model_total_mass_balance_masked # 0
          /\ modal_mass_changes[k].model_total_mass_balance_masked
                # modal_mass_changes[k].model_total_mass_balance_unmasked

WholeGridBasin ==
    /\ Len(args.basins_gdf) = 1
    /\ \A c \in Cells :
          Intersects(<<args.x_coords[c[1]], args.y_coords[c[2]]>>, args.basins_gdf[1])

DatesInRange ==
    \A d \in {args.start_date_fract, args.end_date_fract} :
        /\ \E t \in TimeValues : t <= d
        /\ \E t \in TimeValues : d <= t

\* C4 (as claimed): for every grid, the grid of a single cell included, and
\* every analysis date, process_model_data gives each grid point the mass change
\* (snapshot(date) - snapshot(start)) * cell_area * ice_density, so that it
\* returns a record for every analysis date whose unmasked total is the sum of
\* these, and so is the masked total under one basin covering the grid.
C4_EveryGrid ==
    (op = "process_model_data" /\ pc = "done" /\ DatesInRange
        /\ args.icesheet \in {"GIS", "AIS"}) =>
        /\ ret.kind = "return"
        /\ \A d \in AnalysisDates :
              /\ Str(d) \in DOMAIN ret.value
              /\ ret.value[Str(d)].model_total_mass_balance_unmasked = ExpectedTotal(Cells, d)
              /\ WholeGridBasin =>
                    ret.value[Str(d)].model_total_mass_balance_masked = ExpectedTotal(Cells, d)

\* C4 (amended): on every grid of at least two x and two y coordinates, after
\* each iteration every grid point's mass change is (snapshot(date) -
\* snapshot(start)) * cell_area * ice_density with a NaN difference counted as 0,
\* the unmasked total of the date's record is their sum and so is the masked
\* total under one basin covering the grid, and both are 0 for a date equal to
\* the start date; on a grid with a single x or a single y coordinate the call
\* raises IndexError and produces no record.
C4_MassChangePerPoint ==
    (op = "process_model_data") =>
        /\ (pc = "done" /\ DatesInRange
               /\ (Len(args.x_coords) < 2 \/ Len(args.y_coords) < 2)) =>
              (ret = Raise("IndexError") /\ modal_mass_changes = NoDict)
        /\ i > 0 =>
              LET d == args.filtered_time_var[i]
                  rec == modal_mass_changes[Str(d)]
              IN  /\ Len(args.x_coords) >= 2 /\ Len(args.y_coords) >= 2
                  /\ Len(lithk_gdf) = Cardinality(Cells)
                  /\ \A c \in Cells :
                        \E k \in 1 .. Len(lithk_gdf) :
                            /\ lithk_gdf[k].geometry = <<args.x_coords[c[1]], args.y_coords[c[2]]>>
                            /\ lithk_gdf[k].lithk_delta = ExpectedDelta(c[1], c[2], d)
                  /\ rec.model_total_mass_balance_unmasked = ExpectedTotal(Cells, d)
                  /\ WholeGridBasin =>
                        rec.model_total_mass_balance_masked = ExpectedTotal(Cells, d)
                  /\ d = args.start_date_fract =>
                        /\ rec.model_total_mass_balance_unmasked = 0
                        /\ rec.model_total_mass_balance_masked = 0

\* one basin over the whole grid, a cell whose difference is NaN, and a date
\* after the start date at which both totals are the same nonzero sum
C4_Witness ==
    /\ op = "process_model_data"
    /\ i > 0
    /\ WholeGridBasin
    /\ args.filtered_time_var[i] # args.start_date_fract
    /\ \E c \in Cells : IsNaN(Interp(args.lithk, args.filtered_time_var[i])[c[2]][c[1]])
    /\ LET rec == modal_mass_changes[Str(args.filtered_time_var[i])]
       IN  /\ rec.model_total_mass_balance_unmasked > 0
           /\ rec.model_total_mass_balance_masked = rec.model_total_mass_balance_unmasked

\* C10 (as claimed): for every ice-sheet identifier other than 'GIS' or 'AIS'
\* process_model_data ends by raising and returns no result, whatever the
\* other inputs are, an observation series without analysis dates included.
\* (The claim names ValueError; any exception is let pass here, so that the
\* calls that refute the claim are those that return a result.)
C10_InvalidIcesheetRaises ==
    (op = "process_model_data" /\ pc = "done" /\ args.icesheet \notin {"GIS", "AIS"}) =>
        (ret.kind = "raise" /\ ret.kind # "return")

(* ------------------------------- C9 ----------------------------------- *)
Gregorian(y) == y % 4 = 0 /\ (y % 100 # 0 \/ y % 400 = 0)
Julian(y) == y % 4 = 0

\* the leap years of the calendars that have some and not all
LeapIn(calendar, y) ==
    CASE calendar = "proleptic_gregorian" -> Gregorian(y)
      [] calendar = "julian" -> Julian(y)
      [] OTHER -> IF y < 1582 THEN Julian(y) ELSE Gregorian(y)

\* C9: days_in_year is 365 for 'noleap'/'365_day' and 366 for
\* 'all_leap'/'366_day' in every year, 360 for '360_day', and for any other
\* calendar 366 in that calendar's leap years and 365 otherwise.
C9_DaysInYear ==
    (op = "days_in_year") =>
        /\ ret.kind = "return"
        /\ ret.value =
             CASE args.calendar \in {"noleap", "365_day"} -> 365
               [] args.calendar \in {"all_leap", "366_day"} -> 366
               [] args.calendar = "360_day" -> 360
               [] OTHER -> IF LeapIn(args.calendar, args.year) THEN 366 ELSE 365

\* a 360-day calendar in a year that the Gregorian rule makes a leap year
C9_Witness ==
    /\ op = "days_in_year"
    /\ args.calendar = "360_day"
    /\ args.year = 2004
    /\ ret.value = 360

(* ------------------------------- C2 ----------------------------------- *)
OutsideRange(d) == (\A t \in TimeValues : d < t) \/ (\A t \in TimeValues : d > t)

\* C2: check_datarange raises ValueError exactly when start_date or end_date
\* lies outside the closed interval [min_time, max_time] of the time
\* coordinate; an endpoint equal to min_time or max_time does not raise.
C2_RaisesExactlyOutside ==
    (op = "check_datarange") =>
        /\ ret = Raise("ValueError")
              <=> (OutsideRange(args.start_date_cftime) \/ OutsideRange(args.end_date_cftime))
        /\ ret.kind = "return"
              <=> ~(OutsideRange(args.start_date_cftime) \/ OutsideRange(args.end_date_cftime))

\* both endpoints on the boundary of a range of more than one value
C2_Witness ==
    /\ op = "check_datarange"
    /\ \E t \in TimeValues : args.start_date_cftime < t
    /\ \A t \in TimeValues : args.start_date_cftime <= t /\ t <= args.end_date_cftime
    /\ args.end_date_cftime \in TimeValues
    /\ ret.kind = "return"

(* ------------------------------- C1 ----------------------------------- *)
\* C1 (as claimed): when sum_MassBalance returns, the delta of the first
\* returned row is its value minus the start-date value and the delta of every
\* later returned row is its value minus the value of the preceding returned row.
C1_SuccessiveDifferences ==
    (op = "sum_MassBalance" /\ ret.kind = "return") =>
        LET rows == ret.value
            startRow == CHOOSE r \in {args.csv[k] : k \in 1 .. Len(args.csv)} :
                            r.Year = args.start_date_fract
        IN  \A k \in 1 .. Len(rows) :
                rows[k].IMBIE_Mass_Change =
                    rows[k].mass - (IF k = 1 THEN startRow.mass ELSE rows[k - 1].mass)

(* ------------------------------- C5 ----------------------------------- *)
ObsRows == {args.IMBIE_total_mass_change_sum[k] :
               k \in 1 .. Len(args.IMBIE_total_mass_change_sum)}

RegionalStartMissing ==
    \E f \in {args.obs_east, args.obs_west, args.obs_peninsula} :
        \A k \in 1 .. Len(f.csv) : f.csv[k].Year # args.start_date_fract

\* C5: the dated entries of process_IMBIE's result are exactly the observation
\* dates whose string form is a key of the model result set; each holds the
\* observation delta minus the masked, and minus the unmasked, model total of
\* that date; a date the model result set lacks gives no entry and no exception
\* (the function raises only from a regional file without the start date).
C5_DatedResiduals ==
    (op = "process_IMBIE") =>
        /\ ret.kind = "return" =>
             /\ DOMAIN ret.value.dated =
                    {Str(r.Year) : r \in {o \in ObsRows : Str(o.Year) \in DOMAIN args.basin_result}}
             /\ \A r \in ObsRows :
                    Str(r.Year) \in DOMAIN args.basin_result =>
                        LET e == ret.value.dated[Str(r.Year)]
                            m == args.basin_result[Str(r.Year)]
                        IN  /\ e.Delta_MassChange_masked =
                                   r.IMBIE_Mass_Change - m.model_total_mass_balance_masked
                            /\ e.Delta_MassChange_unmasked =
                                   r.IMBIE_Mass_Change - m.model_total_mass_balance_unmasked
        /\ ret.kind = "raise" =>
             /\ args.icesheet = "AIS"
             /\ RegionalFilesExist(args.obs_east, args.obs_west, args.obs_peninsula)
             /\ RegionalStartMissing

\* a date the model result set lacks is skipped and a later date still gets its entry
C5_Witness ==
    /\ op = "process_IMBIE"
    /\ ret.kind = "return"
    /\ \E j, k \in 1 .. Len(args.IMBIE_total_mass_change_sum) :
          /\ j < k
          /\ Str(args.IMBIE_total_mass_change_sum[j].Year) \notin DOMAIN args.basin_result
          /\ Str(args.IMBIE_total_mass_change_sum[k].Year) \in DOMAIN ret.value.dated

(* ------------------------------- C6 ----------------------------------- *)
AllThreeFilesExist ==
    \A f \in {args.obs_east, args.obs_west, args.obs_peninsula} : f.name = "exists"

\* C6: regional reconciliation is all-or-nothing: a result of process_IMBIE
\* carries the flag 'YES' exactly when the ice sheet is 'AIS' and all three
\* regional files exist; when any of the three is not given or does not exist
\* the result has no 'Regional_Mass_Change_Summary' and the flag is 'NO'; for
\* 'GIS' the flag is 'NO'.
C6_RegionalAllOrNothing ==
    (op = "process_IMBIE" /\ ret.kind = "return") =>
        /\ ret.value.print_regionalresult_check \in {"YES", "NO"}
        /\ ret.value.print_regionalresult_check = "YES"
              <=> (args.icesheet = "AIS" /\ AllThreeFilesExist)
        /\ ~AllThreeFilesExist =>
              /\ ~ret.value.has_Regional_Mass_Change_Summary
              /\ ret.value.Regional_Mass_Change_Summary = NoDict
              /\ ret.value.print_regionalresult_check = "NO"
        /\ args.icesheet = "GIS" => ret.value.print_regionalresult_check = "NO"

\* 'AIS' with exactly one regional file absent, the two others on the disk
C6_Witness ==
    /\ op = "process_IMBIE"
    /\ ret.kind = "return"
    /\ args.icesheet = "AIS"
    /\ args.obs_east.name = "exists"
    /\ args.obs_west.name = "missing"
    /\ args.obs_peninsula.name = "exists"
    /\ ret.value.print_regionalresult_check = "NO"
    /\ ret.value.dated # NoDict

(* ------------------------------- C11 ---------------------------------- *)
CsvYears == {args.csv[k].Year : k \in 1 .. Len(args.csv)}

\* C11: sum_MassBalance raises ValueError whenever no row of the file has Year
\* equal to start_date, also when the file has rows before and after
\* start_date, and then returns no filtered series.
C11_MissingStartRaises ==
    (op = "sum_MassBalance" /\ args.start_date_fract \notin CsvYears) =>
        /\ ret = Raise("ValueError")
        /\ ret.kind # "return"

\* the mass column is there, the start date is not, and rows lie on both sides
C11_Witness ==
    /\ op = "sum_MassBalance"
    /\ args.hasColumn
    /\ args.start_date_fract \notin CsvYears
    /\ \E y \in CsvYears : y < args.start_date_fract
    /\ \E y \in CsvYears : y > args.start_date_fract /\ y <= args.end_date_fract
    /\ ret = Raise("ValueError")

(* ------------------------------- C12 ---------------------------------- *)
\* the calendar dates of the record's first start and last end (line 48)
EarliestStart == args.mascon.times_start[1]
LatestEnd == args.mascon.times_end[Len(args.mascon.times_end)]

\* C12 (as claimed): calc_mascon_delta_cmwe returns None exactly when the
\* calendar date start_date precedes the date times_start[0] of the earliest
\* record start or the calendar date end_date follows the date times_end[-1] of
\* the latest record end, and returns an array of length sum(I_) in every other
\* case.  (Dates are compared as calendar dates, which is the comparison of the
\* day numbers when the conversion of line 141 and the day vectors of the
\* record count from the same epoch, as the claim says they do.)
C12_NoneExactlyOutsideRecord ==
    (op = "calc_mascon_delta_cmwe") =>
        /\ ret = ReturnNone
              <=> (args.start_date < EarliestStart \/ args.end_date > LatestEnd)
        /\ ret # ReturnNone =>
              (ret.kind = "return" /\ Len(ret.value) = CountTrue(args.I_))

(* ------------------------------- C13 ---------------------------------- *)
\* the (grid point, basin polygon) pairs of a joined frame
Pairs(joined) == {<<joined[r].index, joined[r].index_right>> : r \in 1 .. Len(joined)}

\* the join as the first iteration builds it (lines 111-122)
FirstJoin ==
    sjoin(LithkGdf(args, LithkDelta(args, args.filtered_time_var[1])), args.basins_gdf, 1, 1)

CellAt(geometry) ==
    CHOOSE c \in Cells : geometry = <<args.x_coords[c[1]], args.y_coords[c[2]]>>

\* C13: after every iteration of process_model_data's loop, the first and
\* every later one, the joined frame holds the (grid point, basin) pairs that
\* the join of the first iteration built, and the value of each pair is the
\* mass change of that same grid point at the current iteration's date.
C13_JoinReused ==
    (op = "process_model_data" /\ i > 0) =>
        \E first \in {FirstJoin} :
            /\ Len(joined_gdf) = Len(first)
            /\ Pairs(joined_gdf) = Pairs(first)
            /\ \A r \in 1 .. Len(joined_gdf) :
                  \E row \in {joined_gdf[r]} :
                  \E c \in {CellAt(row.geometry)} :
                      /\ row.geometry = lithk_gdf[row.index].geometry
                      /\ row.geometry = first[r].geometry
                      /\ Intersects(row.geometry, args.basins_gdf[row.index_right])
                      /\ row.Subregion = args.basins_gdf[row.index_right].Subregion
                      /\ row.lithk_delta = lithk_gdf[row.index].lithk_delta
                      /\ row.lithk_delta = ExpectedDelta(c[1], c[2], args.filtered_time_var[i])

\* a later iteration at which a joined grid point's value differs from the
\* value it had at the iteration before
C13_Witness ==
    /\ op = "process_model_data"
    /\ i >= 2
    /\ \E r \in 1 .. Len(joined_gdf) :
          LET c == CellAt(joined_gdf[r].geometry)
          IN  /\ joined_gdf[r].lithk_delta # 0
              /\ joined_gdf[r].lithk_delta
                    # ExpectedDelta(c[1], c[2], args.filtered_time_var[i - 1])

(* ------------------------------- C14 ---------------------------------- *)
\* C14: after every iteration of process_model_data's loop, for every k the
\* k-th point and the k-th flattened value are those of one grid cell: with x
\* the outer and y the inner index, the k-th row of the frame has the
\* coordinates (x_coords[xi], y_coords[yi]) and the mass change of the cell
\* (xi, yi) of the (y, x) field, for k = (xi - 1) * len(y_coords) + yi.
C14_PointAndValueOfOneCell ==
    (op = "process_model_data" /\ i > 0) =>
        /\ Len(lithk_gdf) = Len(args.x_coords) * Len(args.y_coords)
        /\ \A xi \in 1 .. Len(args.x_coords), yi \in 1 .. Len(args.y_coords) :
              \E row \in {lithk_gdf[(xi - 1) * Len(args.y_coords) + yi]} :
                  /\ row.geometry = <<args.x_coords[xi], args.y_coords[yi]>>
                  /\ row.lithk_delta = ExpectedDelta(xi, yi, args.filtered_time_var[i])

\* a grid with more x than y coordinates whose cells' values all differ
C14_Witness ==
    /\ op = "process_model_data"
    /\ i > 0
    /\ Len(args.x_coords) > Len(args.y_coords)
    /\ \A k, m \in 1 .. Len(lithk_gdf) :
          k # m => lithk_gdf[k].lithk_delta # lithk_gdf[m].lithk_delta

(* ------------------------------- C15 ---------------------------------- *)
\* C15 (as claimed): when points_to_mascons returns, output entry k belongs to
\* the k-th true entry of I_: it is the mean of the non-NaN values of the
\* points inside that cell's half-open box, and NaN when the cell has none,
\* also when an earlier selected cell has none.
C15_EntryOfKthSelectedCell ==
    (op = "points_to_mascons" /\ ret.kind = "return") =>
        /\ Len(ret.value) = CountTrue(args.I_)
        /\ \A k \in 1 .. Len(ret.value) :
              LET m == Surviving(args.mascons, Indices(args.I_, 1)[k], args.points)
              IN  IF m = <<>> THEN IsNaN(ret.value[k])
                  ELSE ret.value[k] = SumSeq(m) \div Len(m)

(* ------------------------------- C16 ---------------------------------- *)
\* the grid cells whose point lies inside at least one basin polygon
CellsInSomeBasin ==
    {c \in Cells : \E b \in 1 .. Len(args.basins_gdf) :
        Intersects(<<args.x_coords[c[1]], args.y_coords[c[2]]>>, args.basins_gdf[b])}

\* C16 (as claimed): in every record of process_model_data the masked total is
\* the sum of the mass changes of the grid points that lie inside at least one
\* basin polygon, each counted once, and of no other grid point, also when
\* basin polygons overlap.
C16_MaskedCountsEachPointOnce ==
    (op = "process_model_data" /\ i > 0) =>
        \E d \in {args.filtered_time_var[i]} :
            modal_mass_changes[Str(d)].model_total_mass_balance_masked
                = ExpectedTotal(CellsInSomeBasin, d)

(* ------------------------------- C17 ---------------------------------- *)
\* C17 (as claimed): whenever calc_mascon_delta_cmwe returns a result, the two
\* times t_0 and t_1 at which the series of the selected cells are evaluated
\* lie within [days_start[0], days_end[-1]], for every pair of dates, end_date
\* earlier than start_date included.
C17_EvaluatedInsideRecord ==
    (op = "calc_mascon_delta_cmwe" /\ ret.kind = "return" /\ CountTrue(args.I_) > 0) =>
        /\ InRecordRange(DayOf(args.start_date))
        /\ InRecordRange(DayOf(args.end_date))

(* ------------------------------- C18 ---------------------------------- *)
\* the series sum_MassBalance returns for a region's file (lines 256-258)
RegionFile(region) ==
    CASE region = "East" -> args.obs_east
      [] region = "West" -> args.obs_west
      [] OTHER -> args.obs_peninsula

RegionSeries(region) ==
    sum_MassBalance(RegionFile(region).csv, TRUE, args.start_date_fract, args.end_date_fract).value

\* C18 (as claimed): every regional observation delta that process_IMBIE
\* stores under a date is, for each of East, West and Peninsula, the delta of
\* that region's series at that same date, also when the three files do not
\* hold the same dates inside the analysis window.
C18_RegionalPairedByDate ==
    (op = "process_IMBIE" /\ ret.kind = "return"
        /\ ret.value.has_Regional_Mass_Change_Summary) =>
        \A key \in DOMAIN ret.value.Regional_Mass_Change_Summary :
            \A region \in Regions :
                ("IMBIE_Mass_Change_" \o region)
                        \in DOMAIN ret.value.Regional_Mass_Change_Summary[key] =>
                    \E k \in 1 .. Len(RegionSeries(region)) :
                        /\ Str(RegionSeries(region)[k].Year) = key
                        /\ RegionSeries(region)[k].IMBIE_Mass_Change =
                               ret.value.Regional_Mass_Change_Summary[key]
                                   ["IMBIE_Mass_Change_" \o region]

=============================================================================
